---- MODULE Spec2Model ----
(***************************************************************************)
(* Platform shims of sonic-buildimage (Accton as9736-64d fan classes and   *)
(* Accton as7926-40xfb thermal class) as a state machine over the sysfs    *)
(* text files they read and write.                                         *)
(*                                                                         *)
(* A file is a record [st, text]: st is "missing" (no such path),          *)
(* "unreadable" (the path exists, open() raises IOError) or "ok"; text is  *)
(* the first line of the file with surrounding whitespace stripped.        *)
(* A Python value returned by a call is a record [kind, val, exc]: kind is *)
(* "return" (val is the value), "none" (the call returned None) or "raise" *)
(* (exc names the exception that reached the caller).                      *)
(***************************************************************************)
EXTENDS Integers, Sequences, FiniteSets, TLC

VARIABLES
    sysfs,       \* path -> file, the kernel attribute files of both platforms
    marker,      \* "host"/"pmon" -> file, the two copies of /tmp/fan_target_speed
    thresholds,  \* sensor name -> field -> text, the threshold override store
    call,        \* the last API call: its name, receiver, argument, I/O outcome and result
    waiting      \* the set_fan_duty_cycle call that waits for its docker exec, or NoCall

vars == <<sysfs, marker, thresholds, call, waiting>>

(***************************************************************************)
(* Bounds of the model                                                     *)
(***************************************************************************)
MaxFlagValue == 2        \* presence / fault / power-good files hold 0..MaxFlagValue
MaxBadFanNum == 5        \* FanUtil calls are tried with fan_num in 0..MaxBadFanNum
MaxDutyStep  == 1        \* duty cycles commanded are 0, 25, .., 25 * MaxDutyStep
MaxTrayIndex == 1        \* Fan objects of trays 0..MaxTrayIndex are exercised

(***************************************************************************)
(* Python values and files                                                 *)
(***************************************************************************)
Ret(v)    == [kind |-> "return", val |-> v, exc |-> ""]
RetNone   == [kind |-> "none",   val |-> 0, exc |-> ""]
Raise(e)  == [kind |-> "raise",  val |-> 0, exc |-> e]
\* the call has not returned: it waits for a child process
Pending   == [kind |-> "pending", val |-> 0, exc |-> ""]

Missing    == [st |-> "missing",    text |-> ""]
Unreadable == [st |-> "unreadable", text |-> ""]
File(t)    == [st |-> "ok",         text |-> t]

\* The result of a text read: None, or a str.
None      == [isnone |-> TRUE,  s |-> ""]
Some(t)   == [isnone |-> FALSE, s |-> t]

Lookup(fs, path) == IF path \in DOMAIN fs THEN fs[path] ELSE Missing

\* str(n) for an integer n.
str(n) == ToString(n)

\* The integers whose decimal text occurs in some file of the model.
MaxPercent    == 100
DutyNumerals  == 0..(MaxPercent + 1)
RpmNumerals   == {136, 408, 680, 3944, 6800, 7752, 13344, 13600, 20000, 26688, 30000}
MilliNumerals == {-5500, 999, 1000, 45500, 84000}
Numerals      == DutyNumerals \cup RpmNumerals \cup MilliNumerals

\* int(s) / int(s, 10): the integer whose decimal text is s; ValueError otherwise.
IntOfText    == [s \in { str(n) : n \in Numerals } |-> CHOOSE n \in Numerals : str(n) = s]
IsNumeral(s) == s \in DOMAIN IntOfText
int(s)       == IntOfText[s]

(***************************************************************************)
(* sonic_platform.helper.APIHelper (as9736-64d)                            *)
(***************************************************************************)
\* read_txt_file(path): the stripped first line, None when the file is
\* unreadable or empty.
APIHelper_read_txt_file(fs, path) ==
    LET f == Lookup(fs, path)
    IN  IF f.st # "ok" \/ f.text = "" THEN None ELSE Some(f.text)

\* write_txt_file(path, value): the file after the write and the returned
\* boolean; ok is whether the operating system lets the write through.
APIHelper_write_txt_file(f, value, ok) ==
    IF ok THEN [file |-> File(str(value)), ret |-> TRUE]
          ELSE [file |-> f,                ret |-> FALSE]

(***************************************************************************)
(* classes/fanutil.py : FanUtil                                            *)
(***************************************************************************)
TARGET_SPEED_PATH          == "/tmp/fan_target_speed"
FAN_NUM_ON_MAIN_BROAD      == 4
FAN_NUM_1_IDX              == 1
FAN_NODE_NUM_OF_MAP        == 5
FAN_NODE_FAULT_IDX_OF_MAP  == 1
FAN_NODE_DUTY_IDX_OF_MAP   == 2
FAN_NODE_FRONT_SPD_OF_MAP  == 3
FAN_NODE_REAR_SPD_OF_MAP   == 4
FAN_NODE_PRESENT_IDX_OF_MAP == 5
BASE_VAL_PATH              == "/sys/bus/i2c/devices/25-0033/"

fan_device_node_mapping(fan_num, node_num) ==
    "fan" \o str(fan_num) \o
        CASE node_num = FAN_NODE_FAULT_IDX_OF_MAP   -> "_fault"
          [] node_num = FAN_NODE_DUTY_IDX_OF_MAP    -> "_duty_cycle_percentage"
          [] node_num = FAN_NODE_FRONT_SPD_OF_MAP   -> "_front_speed_rpm"
          [] node_num = FAN_NODE_REAR_SPD_OF_MAP    -> "_rear_speed_rpm"
          [] node_num = FAN_NODE_PRESENT_IDX_OF_MAP -> "_present"

get_fan_device_path(fan_num, node_num) ==
    BASE_VAL_PATH \o fan_device_node_mapping(fan_num, node_num)

\* _get_fan_node_val: None on a bad parameter, a file that cannot be opened
\* or an empty first line; int(content) otherwise.
FanUtil_get_fan_node_val(fs, fan_num, node_num) ==
    IF fan_num < FAN_NUM_1_IDX \/ fan_num > FAN_NUM_ON_MAIN_BROAD THEN RetNone
    ELSE IF node_num < FAN_NODE_FAULT_IDX_OF_MAP \/ node_num > FAN_NODE_NUM_OF_MAP THEN RetNone
    ELSE LET f == Lookup(fs, get_fan_device_path(fan_num, node_num))
         IN  IF f.st # "ok" THEN RetNone
             ELSE IF f.text = "" THEN RetNone
             ELSE IF IsNumeral(f.text) THEN Ret(int(f.text))
             ELSE Raise("ValueError")

get_fan_fault(fs, fan_num) ==
    FanUtil_get_fan_node_val(fs, fan_num, FAN_NODE_FAULT_IDX_OF_MAP)

\* get_fan_status reads the fault file twice; fs1 and fs2 are the file
\* system at the first and at the second read.
get_fan_status_reads(fs1, fs2, fan_num) ==
    IF fan_num < FAN_NUM_1_IDX \/ fan_num > FAN_NUM_ON_MAIN_BROAD THEN RetNone
    ELSE LET first  == get_fan_fault(fs1, fan_num)
             second == get_fan_fault(fs2, fan_num)
         IN  IF first.kind = "raise" THEN first
             ELSE IF first.kind = "none" THEN Ret(TRUE)
             ELSE IF second.kind = "raise" THEN second
             ELSE IF second.kind = "none" THEN Raise("TypeError")
             ELSE IF second.val > 0 THEN Ret(FALSE)
             ELSE Ret(TRUE)

get_fan_status(fs, fan_num) == get_fan_status_reads(fs, fs, fan_num)

\* The I/O outcomes a set_fan_duty_cycle call can meet: the duty-cycle file
\* of fan fail_at (0: none) cannot be opened ("open") or rejects the write
\* ("write"); the host marker and the pmon marker writes succeed or not.
DutyIo ==
    { [fail_at |-> 0, how |-> "none", marker_ok |-> m, pmon_ok |-> p] :
          m \in BOOLEAN, p \in BOOLEAN }
    \cup
    { [fail_at |-> k, how |-> h, marker_ok |-> TRUE, pmon_ok |-> TRUE] :
          k \in 1..FAN_NUM_ON_MAIN_BROAD, h \in {"open", "write"} }

DutyPath(fan_num) == get_fan_device_path(fan_num, FAN_NODE_DUTY_IDX_OF_MAP)

\* The first fan (1..4) whose duty-cycle file stops the loop, 5 when the
\* loop runs to its end.  open(path, 'r+') fails on a missing or
\* inaccessible file.
DutyLoopStop(fs, io) ==
    LET Stops(n) == \/ Lookup(fs, DutyPath(n)).st # "ok"
                    \/ io.fail_at = n
        S == { n \in 1..FAN_NUM_ON_MAIN_BROAD : Stops(n) }
    IN  IF S = {} THEN FAN_NUM_ON_MAIN_BROAD + 1
        ELSE CHOOSE n \in S : \A m \in S : n <= m

\* A set_fan_duty_cycle that skips a fan whose file cannot be opened and
\* carries on with the remaining fans and the marker files.
set_fan_duty_cycle_keeps_going(fs, mk, val, io) ==
    LET stop    == DutyLoopStop(fs, io)
        done    == { DutyPath(n) : n \in (1..FAN_NUM_ON_MAIN_BROAD) \ {stop} }
        written == [p \in DOMAIN fs |-> IF p \in done THEN File(str(val)) ELSE fs[p]]
    IN  [fs  |-> written,
         mk  |-> [e \in DOMAIN mk |-> File(str(val))],
         ret |-> Ret(stop > FAN_NUM_ON_MAIN_BROAD)]

\* set_fan_duty_cycle(val) up to its call of subprocess.getstatusoutput:
\* the files, and the result when the call ends in the loop; Pending when
\* the call has written the host marker and waits for "docker exec pmon".
set_fan_duty_cycle(fs, mk, val, io) ==
    LET stop    == DutyLoopStop(fs, io)
        done    == { DutyPath(n) : n \in 1..(stop - 1) }
        written == [p \in DOMAIN fs |-> IF p \in done THEN File(str(val)) ELSE fs[p]]
        opened  == stop <= FAN_NUM_ON_MAIN_BROAD /\ Lookup(fs, DutyPath(stop)).st = "ok"
        host    == APIHelper_write_txt_file(mk["host"], val, io.marker_ok)
    IN  IF stop <= FAN_NUM_ON_MAIN_BROAD
        THEN [fs |-> written, mk |-> mk,
              ret |-> IF opened /\ io.fail_at = stop /\ io.how = "write"
                      THEN Raise("IOError") ELSE Ret(FALSE)]
        ELSE [fs |-> written,
              mk |-> [mk EXCEPT !["host"] = host.file],
              ret |-> Pending]

(***************************************************************************)
(* IEEE-754 double arithmetic of Fan.get_speed:                            *)
(* int(min(d * (r / t), 100)) for integers d, r, t >= 1, where / and * are *)
(* Python float operations (53-bit significand, round to nearest, ties to  *)
(* even).  A natural number wider than a machine word is a sequence of     *)
(* base-256 digits, most significant first, without leading zeros; a float *)
(* is [m, x] with m such a number of exactly 53 bits and value m * 2^x.    *)
(***************************************************************************)
SignificandBits == 53
Base            == 256
DivScaleDigits  == 9       \* r / t is computed from floor(r * 256^9 / t)

Strip(N) ==
    LET nz == { i \in 1..Len(N) : N[i] # 0 }
    IN  IF nz = {} THEN <<>>
        ELSE SubSeq(N, CHOOSE i \in nz : \A j \in nz : i <= j, Len(N))

RECURSIVE Digits(_)
Digits(n) == IF n = 0 THEN <<>> ELSE Digits(n \div Base) \o <<n % Base>>

RECURSIVE ToInt(_)
\* the value of a short digit sequence
ToInt(N) == IF N = <<>> THEN 0 ELSE Base * ToInt(SubSeq(N, 1, Len(N) - 1)) + N[Len(N)]

RECURSIVE DivFrom(_, _, _, _)
DivFrom(N, k, i, rem) ==
    IF i > Len(N) THEN [q |-> <<>>, r |-> rem]
    ELSE LET cur  == rem * Base + N[i]
             rest == DivFrom(N, k, i + 1, cur % k)
         IN  [q |-> <<cur \div k>> \o rest.q, r |-> rest.r]

\* quotient and remainder of N by a small k
BigDivSmall(N, k) ==
    LET d == DivFrom(N, k, 1, 0) IN [q |-> Strip(d.q), r |-> d.r]

RECURSIVE MulFrom(_, _, _, _)
\* the digits of N[1..i] * d + carry
MulFrom(N, d, i, carry) ==
    IF i = 0 THEN Digits(carry)
    ELSE LET v == N[i] * d + carry
         IN  MulFrom(N, d, i - 1, v \div Base) \o <<v % Base>>

BigMulSmall(N, d) == MulFrom(N, d, Len(N), 0)

BigIncrement(N) ==
    LET low == { i \in 1..Len(N) : N[i] # Base - 1 }
    IN  IF low = {} THEN <<1>> \o [i \in 1..Len(N) |-> 0]
        ELSE LET j == CHOOSE i \in low : \A k \in low : k <= i
             IN  [i \in 1..Len(N) |-> IF i < j THEN N[i] ELSE IF i = j THEN N[i] + 1 ELSE 0]

IsOdd(N) == N # <<>> /\ N[Len(N)] % 2 = 1

Pow2(k) == CASE k = 0 -> 1 [] k = 1 -> 2 [] k = 2 -> 4 [] k = 3 -> 8
             [] k = 4 -> 16 [] k = 5 -> 32 [] k = 6 -> 64 [] k = 7 -> 128 [] k = 8 -> 256

BitLen(N) ==
    IF N = <<>> THEN 0
    ELSE 8 * (Len(N) - 1) + (CHOOSE k \in 1..8 : Pow2(k - 1) <= N[1] /\ N[1] < Pow2(k))

\* floor(N / 2^s), and whether a non-zero part was shifted out
ShiftRight(N, s) ==
    LET bytes == s \div 8
        kept  == SubSeq(N, 1, Len(N) - bytes)
        d     == BigDivSmall(kept, Pow2(s % 8))
    IN  [q    |-> d.q,
         lost |-> d.r # 0 \/ \E i \in (Len(N) - bytes + 1)..Len(N) : i >= 1 /\ N[i] # 0]

\* N (more than 53 bits long), followed by a non-zero fraction when sticky,
\* rounded to a 53-bit significand: to nearest, ties to even
RoundSignificand(N, sticky) ==
    LET s    == BitLen(N) - SignificandBits
        n1   == ShiftRight(N, s - 1)
        m0   == ShiftRight(n1.q, 1).q
        up   == IsOdd(n1.q) /\ (n1.lost \/ sticky \/ IsOdd(m0))
        m    == IF up THEN BigIncrement(m0) ELSE m0
    IN  IF BitLen(m) > SignificandBits
        THEN [m |-> ShiftRight(m, 1).q, shift |-> s + 1]
        ELSE [m |-> m, shift |-> s]

\* float(r) / float(t)
FloatDiv(r, t) ==
    LET scaled == Digits(r) \o [i \in 1..DivScaleDigits |-> 0]
        d      == BigDivSmall(scaled, t)
        rs     == RoundSignificand(d.q, d.r # 0)
    IN  [m |-> rs.m, x |-> rs.shift - 8 * DivScaleDigits]

\* d * f for an integer d >= 1 and a float f
FloatMul(d, f) ==
    LET p == BigMulSmall(f.m, d)
    IN  IF BitLen(p) = SignificandBits THEN [m |-> p, x |-> f.x]
        ELSE LET rs == RoundSignificand(p, FALSE)
             IN  [m |-> rs.m, x |-> f.x + rs.shift]

\* int(f) for a float f >= 0, 128 standing for every value >= 128
FloatTrunc(f) ==
    IF f.x >= 0 THEN 128
    ELSE IF -f.x >= SignificandBits THEN 0
    ELSE LET q == ShiftRight(f.m, -f.x).q
         IN  IF BitLen(q) > 7 THEN 128 ELSE ToInt(q)

(***************************************************************************)
(* sonic_platform/fan.py : Fan                                             *)
(***************************************************************************)
SPEED_TOLERANCE    == 30
CPLD_FAN_I2C_PATH  == "/sys/bus/i2c/devices/25-0033/fan"
I2C_PATH(num, addr) == "/sys/bus/i2c/devices/" \o str(num) \o "-00" \o addr \o "/"
PSU_HWMON_I2C_MAPPING == [i \in 0..1 |-> IF i = 0 THEN [num |-> 41, addr |-> "59"]
                                                  ELSE [num |-> 33, addr |-> "58"]]
PSU_CPLD_I2C_MAPPING  == [i \in 0..1 |-> IF i = 0 THEN [num |-> 41, addr |-> "51"]
                                                  ELSE [num |-> 33, addr |-> "50"]]
PSU_FAN_MAX_RPM    == 26688

FAN_NAME_LIST == << "FAN-1F", "FAN-1R", "FAN-2F", "FAN-2R",
                    "FAN-3F", "FAN-3R", "FAN-4F", "FAN-4R" >>

\* percentage -> target rpm
FAN_TARGET_SPEED_TABLE ==
    [ pct \in { 5 * k : k \in 0..20 } |-> [target_speed |-> 136 * pct] ]

\* Fan.__init__: the fields of a Fan object
Fan(fan_tray_index, fan_index, is_psu_fan, psu_index, is_host) ==
    [fan_tray_index |-> fan_tray_index, fan_index |-> fan_index,
     is_psu_fan |-> is_psu_fan, psu_index |-> psu_index, is_host |-> is_host]

psu_hwmon_path(self) == I2C_PATH(PSU_HWMON_I2C_MAPPING[self.psu_index].num,
                                 PSU_HWMON_I2C_MAPPING[self.psu_index].addr)
psu_cpld_path(self)  == I2C_PATH(PSU_CPLD_I2C_MAPPING[self.psu_index].num,
                                 PSU_CPLD_I2C_MAPPING[self.psu_index].addr)

FanAttrPath(n, attr) == CPLD_FAN_I2C_PATH \o str(n) \o attr
\* front fans are fan1..fan4, rear fans fan11..fan14
RotorIndex(self) == IF self.fan_index = 0 THEN self.fan_tray_index + 1
                                          ELSE self.fan_tray_index + 11
\* the copy of /tmp/fan_target_speed the process of this object sees
Env(self) == IF self.is_host THEN "host" ELSE "pmon"

\* int(val, 10) == k for a str val
IntEquals(val, k) ==
    IF IsNumeral(val.s) THEN Ret(int(val.s) = k) ELSE Raise("ValueError")

\* A get_presence that takes every non-zero value for "present".
Fan_get_presence_nonzero(fs, self) ==
    LET val == APIHelper_read_txt_file(fs,
                   IF self.is_psu_fan THEN psu_cpld_path(self) \o "psu_present"
                   ELSE FanAttrPath(self.fan_tray_index + 1, "_present"))
    IN  IF val.isnone THEN Ret(FALSE)
        ELSE IF ~IsNumeral(val.s) THEN Raise("ValueError")
        ELSE Ret(int(val.s) # 0)

Fan_get_presence(fs, self) ==
    LET val == APIHelper_read_txt_file(fs, FanAttrPath(self.fan_tray_index + 1, "_present"))
    IN  IF ~self.is_psu_fan
        THEN IF ~val.isnone THEN IntEquals(val, 1) ELSE Ret(FALSE)
        ELSE LET pval == APIHelper_read_txt_file(fs, psu_cpld_path(self) \o "psu_present")
             IN  IF ~pval.isnone THEN IntEquals(pval, 1) ELSE Ret(FALSE)

Fan_get_status(fs, self) ==
    IF self.is_psu_fan
    THEN LET val == APIHelper_read_txt_file(fs, psu_cpld_path(self) \o "psu_power_good")
         IN  IF ~val.isnone THEN IntEquals(val, 1) ELSE Ret(FALSE)
    ELSE LET val == APIHelper_read_txt_file(fs, FanAttrPath(RotorIndex(self), "_fault"))
         IN  IF ~val.isnone THEN IntEquals(val, 0) ELSE Ret(FALSE)

\* speed = int(fan_target) * (int(fan_input) / target_speed), clamped, truncated
ChassisSpeedValue(d, r) ==
    LET t == FAN_TARGET_SPEED_TABLE[d].target_speed
        v == FloatTrunc(FloatMul(d, FloatDiv(r, t)))
    IN  IF v > 100 THEN 100 ELSE v

\* speed = int(fan_speed_rpm) * 100 / 26688, clamped, truncated
PsuSpeedValue(rpm) ==
    LET v == FloatTrunc(FloatDiv(rpm * 100, PSU_FAN_MAX_RPM))
    IN  IF v > 100 THEN 100 ELSE v

\* the two computations, tabulated over the readings of the model
PositiveNumerals  == { n \in Numerals : n > 0 }
ChassisSpeedTable ==
    [d \in { p \in DOMAIN FAN_TARGET_SPEED_TABLE : FAN_TARGET_SPEED_TABLE[p].target_speed # 0 } |->
        [r \in PositiveNumerals |-> ChassisSpeedValue(d, r)]]
PsuSpeedTable     == [rpm \in PositiveNumerals |-> PsuSpeedValue(rpm)]
ChassisSpeed(d, r) == ChassisSpeedTable[d][r]
PsuSpeed(rpm)      == PsuSpeedTable[rpm]

Fan_get_speed(fs, self) ==
    IF self.is_psu_fan
    THEN LET rpm == APIHelper_read_txt_file(fs, psu_hwmon_path(self) \o "psu_fan1_speed_rpm")
         IN  IF rpm.isnone THEN Ret(0)
             ELSE IF ~IsNumeral(rpm.s) THEN Raise("ValueError")
             ELSE IF int(rpm.s) = 0 THEN Ret(0)
             ELSE Ret(PsuSpeed(int(rpm.s)))
    ELSE LET present == Fan_get_presence(fs, self)
         IN  IF present.kind = "raise" THEN present
             ELSE IF ~present.val THEN Ret(0)
             ELSE LET fan_target == APIHelper_read_txt_file(fs,
                                        FanAttrPath(self.fan_tray_index + 1, "_duty_cycle_percentage"))
                      fan_input  == APIHelper_read_txt_file(fs, FanAttrPath(RotorIndex(self), "_input"))
                  IN  IF fan_input.isnone \/ fan_target.isnone THEN Ret(0)
                      ELSE IF ~IsNumeral(fan_target.s) THEN Raise("ValueError")
                      ELSE IF int(fan_target.s) \notin DOMAIN FAN_TARGET_SPEED_TABLE THEN Raise("KeyError")
                      ELSE IF FAN_TARGET_SPEED_TABLE[int(fan_target.s)].target_speed = 0 THEN Ret(0)
                      ELSE IF ~IsNumeral(fan_input.s) THEN Raise("ValueError")
                      ELSE IF int(fan_input.s) = 0 THEN Ret(0)
                      ELSE Ret(ChassisSpeed(int(fan_target.s), int(fan_input.s)))

\* os.path.isfile(TARGET_SPEED_PATH)
isfile(f) == f.st # "missing"

Fan_get_target_speed(fs, mk, self) ==
    IF self.is_psu_fan THEN Fan_get_speed(fs, self)
    ELSE LET present == Fan_get_presence(fs, self)
         IN  IF present.kind = "raise" THEN present
             ELSE IF ~present.val THEN Raise("UnboundLocalError")
             ELSE LET speed ==
                        IF isfile(mk[Env(self)]) /\ ~self.is_host
                        THEN APIHelper_read_txt_file(mk, Env(self))
                        ELSE APIHelper_read_txt_file(fs,
                                 FanAttrPath(self.fan_tray_index + 1, "_duty_cycle_percentage"))
                  IN  IF speed.isnone THEN Ret(0)
                      ELSE IF ~IsNumeral(speed.s) THEN Raise("ValueError")
                      ELSE Ret(int(speed.s))

\* int(x) for the result x of a text read
IntOfRead(x) ==
    IF x.isnone THEN Raise("TypeError")
    ELSE IF ~IsNumeral(x.s) THEN Raise("ValueError")
    ELSE Ret(int(x.s))

abs(n) == IF n < 0 THEN -n ELSE n

Fan_get_speed_tolerance(fs, mk, self) ==
    IF isfile(mk[Env(self)])
    THEN LET target_speed  == IntOfRead(APIHelper_read_txt_file(fs,
                                  FanAttrPath(self.fan_tray_index + 1, "_duty_cycle_percentage")))
             set_speed_val == IntOfRead(APIHelper_read_txt_file(mk, Env(self)))
         IN  IF target_speed.kind = "raise" THEN target_speed
             ELSE IF set_speed_val.kind = "raise" THEN set_speed_val
             ELSE Ret(SPEED_TOLERANCE + abs(target_speed.val - set_speed_val.val))
    ELSE Ret(SPEED_TOLERANCE)

\* A set_speed that mirrors the speed into the marker file before it knows
\* whether the duty-cycle write went through.
Fan_set_speed_marker_first(fs, mk, self, speed, duty_ok, marker_ok) ==
    LET present    == Fan_get_presence(fs, self)
        speed_path == FanAttrPath(self.fan_tray_index + 1, "_duty_cycle_percentage")
    IN  IF self.is_psu_fan THEN [fs |-> fs, mk |-> mk, ret |-> Ret(FALSE)]
        ELSE IF present.kind = "raise" THEN [fs |-> fs, mk |-> mk, ret |-> present]
        ELSE IF ~present.val THEN [fs |-> fs, mk |-> mk, ret |-> Ret(FALSE)]
        ELSE LET w == APIHelper_write_txt_file(Lookup(fs, speed_path), speed,
                          duty_ok /\ Lookup(fs, speed_path).st # "missing")
                 t == APIHelper_write_txt_file(mk[Env(self)], speed, marker_ok)
             IN  [fs  |-> IF w.ret THEN [fs EXCEPT ![speed_path] = w.file] ELSE fs,
                  mk  |-> [mk EXCEPT ![Env(self)] = t.file],
                  ret |-> Ret(w.ret)]

\* set_speed(speed): the files and the result after the call; duty_ok and
\* marker_ok tell whether the operating system lets each write through
\* (a sysfs attribute that does not exist cannot be created by a write).
Fan_set_speed(fs, mk, self, speed, duty_ok, marker_ok) ==
    LET present    == Fan_get_presence(fs, self)
        speed_path == FanAttrPath(self.fan_tray_index + 1, "_duty_cycle_percentage")
    IN  IF self.is_psu_fan THEN [fs |-> fs, mk |-> mk, ret |-> Ret(FALSE)]
        ELSE IF present.kind = "raise" THEN [fs |-> fs, mk |-> mk, ret |-> present]
        ELSE IF ~present.val THEN [fs |-> fs, mk |-> mk, ret |-> Ret(FALSE)]
        ELSE LET w == APIHelper_write_txt_file(Lookup(fs, speed_path), speed,
                          duty_ok /\ Lookup(fs, speed_path).st # "missing")
                 t == APIHelper_write_txt_file(mk[Env(self)], speed, marker_ok)
             IN  [fs  |-> IF w.ret THEN [fs EXCEPT ![speed_path] = w.file] ELSE fs,
                  mk  |-> IF w.ret THEN [mk EXCEPT ![Env(self)] = t.file] ELSE mk,
                  ret |-> Ret(w.ret)]

\* FanBase.STATUS_LED_COLOR_*
STATUS_LED_COLOR_GREEN == "green"
STATUS_LED_COLOR_AMBER == "amber"
STATUS_LED_COLOR_OFF   == "off"

\* {1: GREEN, 0: AMBER}.get(status, OFF) for a bool status: True and False
\* are the keys 1 and 0.
LedOfStatus(status) ==
    LET key   == IF status THEN 1 ELSE 0
        table == (1 :> STATUS_LED_COLOR_GREEN) @@ (0 :> STATUS_LED_COLOR_AMBER)
    IN  IF key \in DOMAIN table THEN table[key] ELSE STATUS_LED_COLOR_OFF

\* A get_status_led that shows a faulty chassis fan in amber.
Fan_get_status_led_by_fault(fs, self) ==
    LET status_ps == Fan_get_presence(fs, self)
        status    == Fan_get_status(fs, self)
    IN  IF status_ps.kind = "raise" THEN status_ps
        ELSE IF status.kind = "raise" THEN status
        ELSE IF self.is_psu_fan /\ ~status_ps.val THEN Ret(STATUS_LED_COLOR_OFF)
        ELSE Ret(LedOfStatus(status_ps.val /\ status.val))

Fan_get_status_led(fs, self) ==
    IF self.is_psu_fan
    THEN LET status_ps == Fan_get_presence(fs, self)
             status    == Fan_get_status(fs, self)
         IN  IF status_ps.kind = "raise" THEN status_ps
             ELSE IF status.kind = "raise" THEN status
             ELSE IF status_ps.val = FALSE THEN Ret(STATUS_LED_COLOR_OFF)
             ELSE Ret(LedOfStatus(status.val))
    ELSE LET status == Fan_get_presence(fs, self)
         IN  IF status.kind = "raise" THEN status
             ELSE Ret(LedOfStatus(status.val))

\* A get_name that forgets the two fans per tray.
Fan_get_name_unscaled(self) ==
    IF ~self.is_psu_fan THEN FAN_NAME_LIST[(self.fan_tray_index + self.fan_index) + 1]
    ELSE "PSU-" \o str(self.psu_index + 1) \o " FAN-" \o str(self.fan_index + 1)

Fan_get_name(self) ==
    IF ~self.is_psu_fan THEN FAN_NAME_LIST[(self.fan_tray_index * 2 + self.fan_index) + 1]
    ELSE "PSU-" \o str(self.psu_index + 1) \o " FAN-" \o str(self.fan_index + 1)

Fan_get_position_in_parent(self) ==
    IF ~self.is_psu_fan THEN self.fan_index + 1 ELSE self.psu_index + 1

(***************************************************************************)
(* sonic_platform.helper.DeviceThreshold (as7926-40xfb)                    *)
(***************************************************************************)
HIGH_THRESHOLD_FIELD      == "high_threshold"
HIGH_CRIT_THRESHOLD_FIELD == "high_crit_threshold"
NOT_AVAILABLE             == "N/A"

\* the stored override of a field of a sensor, NOT_AVAILABLE when there is none
DeviceThreshold_get(th, name, field) ==
    IF name \in DOMAIN th THEN th[name][field] ELSE NOT_AVAILABLE

\* the store after an override has been written
DeviceThreshold_set(th, name, field, text) ==
    [n \in DOMAIN th \cup {name} |->
        IF n = name
        THEN [f \in {HIGH_THRESHOLD_FIELD, HIGH_CRIT_THRESHOLD_FIELD} |->
                 IF f = field THEN text ELSE DeviceThreshold_get(th, name, f)]
        ELSE th[n]]

(***************************************************************************)
(* sonic_platform/thermal.py : Thermal                                     *)
(* A Python float with at most three decimals is [whole, milli]:           *)
(* whole + milli / 1000 with 0 <= milli < 1000.                            *)
(***************************************************************************)
THERMAL_NAME_LIST ==
    << "Temp sensor 1", "Temp sensor 2", "Temp sensor 3",
       "Temp sensor 4", "Temp sensor 5", "Temp sensor 6",
       "Temp sensor 7", "Temp sensor 8", "Temp sensor 9",
       "Temp sensor 10", "CPU Package Temp",
       "CPU Core 0 Temp", "CPU Core 1 Temp", "CPU Core 2 Temp",
       "CPU Core 3 Temp", "CPU Core 4 Temp", "CPU Core 5 Temp",
       "CPU Core 6 Temp", "CPU Core 7 Temp" >>

PSU_THERMAL_NAME_LIST == << "PSU-1 temp sensor 1", "PSU-2 temp sensor 1" >>

SYSFS_PATH     == "/sys/devices/platform/as7926_40xfb_thermal/"
SYSFS_PATH_PSU == "/sys/devices/platform/as7926_40xfb_psu/"
CPU_SYSFS_PATH == "/sys/devices/platform"

\* A conversion that takes the reading for centidegrees.
DivideBy100(n) == [whole |-> n \div 100, milli |-> 10 * (n % 100)]

\* float(n) / 1000 for an integer n
DivideBy1000(n) == [whole |-> n \div 1000, milli |-> n % 1000]

\* float(s) for the decimal text s of a number of degrees: "84.0", "84"
MaxDegrees       == 120
FloatOfText      == [s \in { str(n) \o ".0" : n \in 0..MaxDegrees } \cup { str(n) : n \in 0..MaxDegrees } |->
                         CHOOSE n \in 0..MaxDegrees : s = str(n) \o ".0" \/ s = str(n)]
IsFloatText(s)   == s \in DOMAIN FloatOfText
float(s)         == [whole |-> FloatOfText[s], milli |-> 0]
\* str(x) for a float x holding a whole number
FloatStr(x)      == str(x.whole) \o ".0"

\* the high and the high critical default of every sensor name, in degrees
DefaultDegrees ==
    << <<84, 87>>, <<110, 115>>, <<110, 115>>, <<70, 73>>, <<72, 75>>,
       <<73, 76>>, <<70, 73>>, <<62, 65>>, <<84, 87>>, <<76, 79>>,
       <<82, 104>>, <<82, 104>>, <<82, 104>>, <<82, 104>>, <<82, 104>>,
       <<82, 104>>, <<82, 104>>, <<82, 104>>, <<82, 104>> >>
PsuDefaultDegrees == << <<62, 67>>, <<62, 67>> >>

default_threshold ==
    [name \in { THERMAL_NAME_LIST[i] : i \in 1..Len(THERMAL_NAME_LIST) }
              \cup { PSU_THERMAL_NAME_LIST[i] : i \in 1..Len(PSU_THERMAL_NAME_LIST) } |->
        LET d == IF \E i \in 1..Len(THERMAL_NAME_LIST) : THERMAL_NAME_LIST[i] = name
                 THEN DefaultDegrees[CHOOSE i \in 1..Len(THERMAL_NAME_LIST) : THERMAL_NAME_LIST[i] = name]
                 ELSE PsuDefaultDegrees[CHOOSE i \in 1..Len(PSU_THERMAL_NAME_LIST) :
                                            PSU_THERMAL_NAME_LIST[i] = name]
        IN  [f \in {HIGH_THRESHOLD_FIELD, HIGH_CRIT_THRESHOLD_FIELD} |->
                 IF f = HIGH_THRESHOLD_FIELD THEN str(d[1]) \o ".0" ELSE str(d[2]) \o ".0"]]

\* Thermal.__init__: the fields of a Thermal object
Thermal(thermal_index, is_psu, psu_index) ==
    LET is_cpu == thermal_index \in 10..18
    IN  [index      |-> thermal_index,
         is_psu     |-> is_psu,
         psu_index  |-> psu_index,
         is_cpu     |-> is_cpu,
         hwmon_path |-> IF is_cpu THEN CPU_SYSFS_PATH \o "/" \o "coretemp.0/hwmon/hwmon0/"
                        ELSE IF is_psu THEN SYSFS_PATH_PSU ELSE SYSFS_PATH,
         ss_index   |-> IF is_cpu THEN thermal_index - 9 ELSE thermal_index + 1]

\* __read_txt_file: the first non-empty stripped first line among the files
\* matching the (wildcard-free) path
Thermal_read_txt_file(fs, file_path) ==
    LET f == Lookup(fs, file_path)
    IN  IF f.st = "ok" /\ f.text # "" THEN Some(f.text) ELSE None

Thermal_get_temp(fs, self, temp_file) ==
    LET raw_temp == Thermal_read_txt_file(fs, self.hwmon_path \o temp_file)
    IN  IF ~raw_temp.isnone
        THEN IF IsNumeral(raw_temp.s) THEN Ret(DivideBy1000(int(raw_temp.s)))
             ELSE Raise("ValueError")
        ELSE Ret(DivideBy1000(0))

Thermal_get_temperature(fs, self) ==
    LET temp_file == IF ~self.is_psu
                     THEN "temp" \o str(self.ss_index) \o "_input"
                     ELSE "psu" \o str(self.psu_index + 1) \o "_temp" \o str(self.ss_index) \o "_input"
    IN  Thermal_get_temp(fs, self, temp_file)

Thermal_get_name(self) ==
    IF self.is_psu THEN PSU_THERMAL_NAME_LIST[self.psu_index + 1]
    ELSE THERMAL_NAME_LIST[self.index + 1]

\* the value of one threshold field: the override, else the default
Thermal_get_threshold(th, self, field) ==
    LET value == DeviceThreshold_get(th, Thermal_get_name(self), field)
    IN  IF value # NOT_AVAILABLE
        THEN IF IsFloatText(value) THEN Ret(float(value)) ELSE Raise("ValueError")
        ELSE LET default_value == default_threshold[Thermal_get_name(self)][field]
             IN  IF default_value # NOT_AVAILABLE
                 THEN IF IsFloatText(default_value) THEN Ret(float(default_value))
                      ELSE Raise("ValueError")
                 ELSE Raise("NotImplementedError")

Thermal_get_high_threshold(th, self) ==
    Thermal_get_threshold(th, self, HIGH_THRESHOLD_FIELD)

Thermal_get_high_critical_threshold(th, self) ==
    Thermal_get_threshold(th, self, HIGH_CRIT_THRESHOLD_FIELD)

\* set_high_threshold(temperature): the store and the result after the
\* call; temperature is given as text, store_ok tells whether the store
\* accepts the write
Thermal_set_high_threshold(th, self, temperature, store_ok) ==
    IF ~IsFloatText(temperature) THEN [th |-> th, ret |-> Ret(FALSE)]
    ELSE IF ~store_ok THEN [th |-> th, ret |-> Ret(FALSE)]
    ELSE [th  |-> DeviceThreshold_set(th, Thermal_get_name(self), HIGH_THRESHOLD_FIELD,
                                      FloatStr(float(temperature))),
          ret |-> Ret(TRUE)]

Thermal_get_presence(fs, self) ==
    IF self.is_cpu THEN Ret(TRUE)
    ELSE IF self.is_psu
    THEN LET val == Thermal_read_txt_file(fs,
                        self.hwmon_path \o "psu" \o str(self.psu_index + 1) \o "_present")
         IN  IF val.isnone THEN Raise("TypeError")
             ELSE IntEquals(val, 1)
    ELSE LET raw_txt == Thermal_read_txt_file(fs,
                            self.hwmon_path \o "temp" \o str(self.ss_index) \o "_input")
         IN  Ret(~raw_txt.isnone)

\* A get_status that takes a sensor for operational unless its file reads 0.
Thermal_get_status_unless_zero(fs, self) ==
    IF self.is_cpu THEN Ret(TRUE)
    ELSE IF self.is_psu THEN Thermal_get_presence(fs, self)
    ELSE LET raw_txt == Thermal_read_txt_file(fs,
                            self.hwmon_path \o "temp" \o str(self.ss_index) \o "_input")
         IN  IF raw_txt.isnone THEN Ret(TRUE)
             ELSE IF IsNumeral(raw_txt.s) THEN Ret(int(raw_txt.s) # 0)
             ELSE Raise("ValueError")

Thermal_get_status(fs, self) ==
    IF self.is_cpu THEN Ret(TRUE)
    ELSE IF self.is_psu THEN Thermal_get_presence(fs, self)
    ELSE LET raw_txt == Thermal_read_txt_file(fs,
                            self.hwmon_path \o "temp" \o str(self.ss_index) \o "_input")
         IN  IF raw_txt.isnone THEN Ret(FALSE)
             ELSE IF IsNumeral(raw_txt.s) THEN Ret(int(raw_txt.s) # 0)
             ELSE Raise("ValueError")

Thermal_get_position_in_parent(self) == self.index + 1

(***************************************************************************)
(* State machine of FanUtil                                                *)
(***************************************************************************)
NoIo     == [fail_at |-> 0, how |-> "none", marker_ok |-> TRUE, pmon_ok |-> TRUE]
NoCall   == [op |-> "init", self |-> 0, arg |-> 0, io |-> NoIo, ret |-> RetNone]
Called(op, self, arg, io, ret) ==
    [op |-> op, self |-> self, arg |-> arg, io |-> io, ret |-> ret]

DutyArgs      == { 25 * k : k \in 0..MaxDutyStep }
FlagTexts     == { str(n) : n \in 0..MaxFlagValue }
FlagFiles     == {Missing, Unreadable, File("")} \cup { File(t) : t \in FlagTexts }
FanNums       == FAN_NUM_1_IDX..FAN_NUM_ON_MAIN_BROAD
FaultPath(n)  == get_fan_device_path(n, FAN_NODE_FAULT_IDX_OF_MAP)
UtilPaths     == { DutyPath(n) : n \in FanNums } \cup { FaultPath(n) : n \in FanNums }
NoThresholds  == [n \in {} |-> 0]

\* The four duty-cycle files hold one common value and the fans report no
\* fault; the marker file has not been written yet.
InitFanUtil ==
    /\ \E d \in DutyArgs :
          sysfs = [p \in UtilPaths |->
                     IF p \in { FaultPath(n) : n \in FanNums } THEN File("0")
                     ELSE File(str(d))]
    /\ marker = [e \in {"host", "pmon"} |-> Missing]
    /\ thresholds = NoThresholds
    /\ call = NoCall
    /\ waiting = NoCall

\* The duty-cycle files hold 0 and one fault file is in an arbitrary state.
InitFanStatus ==
    /\ \E bad \in FanNums, ff \in FlagFiles :
          sysfs = [p \in UtilPaths |->
                     IF p = FaultPath(bad) THEN ff ELSE File("0")]
    /\ marker = [e \in {"host", "pmon"} |-> Missing]
    /\ thresholds = NoThresholds
    /\ call = NoCall
    /\ waiting = NoCall

\* A call of set_fan_duty_cycle up to its return in the loop, or up to the
\* point where it waits for the docker exec it started; one call at a time.
SetFanDutyCycle ==
    \E val \in DutyArgs, io \in DutyIo :
        LET r == set_fan_duty_cycle(sysfs, marker, val, io)
            c == Called("FanUtil.set_fan_duty_cycle", 0, val, io, r.ret)
        IN  /\ waiting.op = "init"
            /\ sysfs' = r.fs
            /\ marker' = r.mk
            /\ call' = c
            /\ waiting' = IF r.ret.kind = "pending" THEN c ELSE NoCall
            /\ UNCHANGED thresholds

\* The docker exec ends: the container's copy of the marker file has been
\* written (or not: the exit status is ignored) and the call returns True.
SetFanDutyCycleReturn ==
    /\ waiting.op = "FanUtil.set_fan_duty_cycle"
    /\ marker' = [marker EXCEPT !["pmon"] =
                      IF waiting.io.pmon_ok THEN File(str(waiting.arg)) ELSE @]
    /\ call' = [waiting EXCEPT !.ret = Ret(TRUE)]
    /\ waiting' = NoCall
    /\ UNCHANGED <<sysfs, thresholds>>

GetFanFault ==
    \E fan_num \in 0..MaxBadFanNum :
        /\ call' = Called("FanUtil.get_fan_fault", 0, fan_num, NoIo, get_fan_fault(sysfs, fan_num))
        /\ UNCHANGED <<sysfs, marker, thresholds, waiting>>

GetFanStatus ==
    \E fan_num \in 0..MaxBadFanNum :
        /\ call' = Called("FanUtil.get_fan_status", 0, fan_num, NoIo, get_fan_status(sysfs, fan_num))
        /\ UNCHANGED <<sysfs, marker, thresholds, waiting>>

NextFanUtil == SetFanDutyCycle \/ SetFanDutyCycleReturn
SpecFanUtil == InitFanUtil /\ [][NextFanUtil]_vars


(***************************************************************************)
(* State machine of Fan                                                    *)
(***************************************************************************)
NUM_FAN_TRAY    == FAN_NUM_ON_MAIN_BROAD
NUM_FAN         == Len(FAN_NAME_LIST) \div NUM_FAN_TRAY
NUM_PSU         == Cardinality(DOMAIN PSU_HWMON_I2C_MAPPING)

\* the objects the chassis creates, in either process, and those of the PSUs
AllChassisFans == { Fan(t, f, FALSE, 0, h) :
                      t \in 0..(NUM_FAN_TRAY - 1), f \in 0..(NUM_FAN - 1), h \in BOOLEAN }
PsuFans        == { Fan(0, 0, TRUE, p, TRUE) : p \in 0..(NUM_PSU - 1) }
ChassisFans    == { o \in AllChassisFans : o.fan_tray_index <= MaxTrayIndex }
FanObjects     == ChassisFans \cup PsuFans

PresentPath(o) == FanAttrPath(o.fan_tray_index + 1, "_present")
FanDutyPath(o) == FanAttrPath(o.fan_tray_index + 1, "_duty_cycle_percentage")
InputPath(o)   == FanAttrPath(RotorIndex(o), "_input")
FanFaultPath(o) == FanAttrPath(RotorIndex(o), "_fault")
PsuPresentPath(o)   == psu_cpld_path(o) \o "psu_present"
PsuPowerGoodPath(o) == psu_cpld_path(o) \o "psu_power_good"
PsuFanRpmPath(o)    == psu_hwmon_path(o) \o "psu_fan1_speed_rpm"

\* the files of a healthy system
Nominal(objs) ==
    [p \in UNION { {PresentPath(o), FanDutyPath(o), InputPath(o), FanFaultPath(o),
                    PsuPresentPath(o), PsuPowerGoodPath(o), PsuFanRpmPath(o)} : o \in objs } |->
        IF \E o \in objs : p \in {PresentPath(o), PsuPresentPath(o), PsuPowerGoodPath(o)} THEN File("1")
        ELSE IF \E o \in objs : p = FanDutyPath(o) THEN File("50")
        ELSE IF \E o \in objs : p = InputPath(o) THEN File("6800")
        ELSE IF \E o \in objs : p = PsuFanRpmPath(o) THEN File("13344")
        ELSE File("0")]

Patch(fs, changes) == [p \in DOMAIN fs |-> IF p \in DOMAIN changes THEN changes[p] ELSE fs[p]]

DutyFiles   == {Missing, File(""), File("0"), File("25"), File("33")}
RpmFiles    == {Missing, File(""), File("0"), File("3944"), File("30000")}
MarkerFiles == {Missing, File(""), File("25")}

\* The files of one fan are in an arbitrary state, the others nominal:
\* (1) presence, duty cycle and rpm of the front fan of tray 0,
\* (2) duty cycle of tray 0 and the two marker files,
\* (3) presence and fault of the rear fan of tray 0,
\* (4) presence and fan rpm of PSU 0, (5) presence and power-good of PSU 0.
InitFan ==
    LET front == Fan(0, 0, FALSE, 0, TRUE)
        rear  == Fan(0, 1, FALSE, 0, TRUE)
        psu   == Fan(0, 0, TRUE, 0, TRUE)
        nom   == Nominal(FanObjects)
        nomk  == [e \in {"host", "pmon"} |-> Missing]
    IN  /\ \/ \E a \in FlagFiles, b \in DutyFiles, c \in RpmFiles :
                /\ sysfs = Patch(nom, (PresentPath(front) :> a) @@ (FanDutyPath(front) :> b)
                                      @@ (InputPath(front) :> c))
                /\ marker = nomk
           \/ \E b \in DutyFiles, h \in MarkerFiles, m \in MarkerFiles :
                /\ sysfs = Patch(nom, (FanDutyPath(front) :> b))
                /\ marker = [e \in {"host", "pmon"} |-> IF e = "host" THEN h ELSE m]
           \/ \E a \in FlagFiles, b \in FlagFiles :
                /\ sysfs = Patch(nom, (PresentPath(rear) :> a) @@ (FanFaultPath(rear) :> b))
                /\ marker = nomk
           \/ \E a \in FlagFiles, c \in RpmFiles :
                /\ sysfs = Patch(nom, (PsuPresentPath(psu) :> a) @@ (PsuFanRpmPath(psu) :> c))
                /\ marker = nomk
           \/ \E a \in FlagFiles, b \in FlagFiles :
                /\ sysfs = Patch(nom, (PsuPresentPath(psu) :> a) @@ (PsuPowerGoodPath(psu) :> b))
                /\ marker = nomk
        /\ thresholds = NoThresholds
        /\ call = NoCall
        /\ waiting = NoCall

FanGetPresence ==
    \E o \in FanObjects :
        /\ call' = Called("Fan.get_presence", o, 0, NoIo, Fan_get_presence(sysfs, o))
        /\ UNCHANGED <<sysfs, marker, thresholds, waiting>>

FanGetStatus ==
    \E o \in FanObjects :
        /\ call' = Called("Fan.get_status", o, 0, NoIo, Fan_get_status(sysfs, o))
        /\ UNCHANGED <<sysfs, marker, thresholds, waiting>>

FanGetSpeed ==
    \E o \in FanObjects :
        /\ call' = Called("Fan.get_speed", o, 0, NoIo, Fan_get_speed(sysfs, o))
        /\ UNCHANGED <<sysfs, marker, thresholds, waiting>>

FanGetTargetSpeed ==
    \E o \in FanObjects :
        /\ call' = Called("Fan.get_target_speed", o, 0, NoIo, Fan_get_target_speed(sysfs, marker, o))
        /\ UNCHANGED <<sysfs, marker, thresholds, waiting>>

FanGetSpeedTolerance ==
    \E o \in FanObjects :
        /\ call' = Called("Fan.get_speed_tolerance", o, 0, NoIo,
                          Fan_get_speed_tolerance(sysfs, marker, o))
        /\ UNCHANGED <<sysfs, marker, thresholds, waiting>>

FanGetStatusLed ==
    \E o \in FanObjects :
        /\ call' = Called("Fan.get_status_led", o, 0, NoIo, Fan_get_status_led(sysfs, o))
        /\ UNCHANGED <<sysfs, marker, thresholds, waiting>>

NextFan == \/ FanGetPresence \/ FanGetStatus \/ FanGetSpeed
           \/ FanGetTargetSpeed \/ FanGetSpeedTolerance \/ FanGetStatusLed
SpecFan == InitFan /\ [][NextFan]_vars

\* Fan.get_speed as a function of the duty-cycle and rpm files of a present
\* chassis fan: every percentage and a range of rpm readings.
SpeedObjects == { o \in ChassisFans : o.fan_tray_index = 0 /\ o.is_host }
InitSpeed ==
    /\ \E d \in 0..MaxPercent, r \in RpmNumerals \cup {0} :
          sysfs = Patch(Nominal(SpeedObjects),
                        [p \in { FanDutyPath(o) : o \in SpeedObjects } |-> File(str(d))]
                        @@ [p \in { InputPath(o) : o \in SpeedObjects } |-> File(str(r))])
    /\ marker = [e \in {"host", "pmon"} |-> Missing]
    /\ thresholds = NoThresholds
    /\ call = NoCall
    /\ waiting = NoCall

SpeedGetSpeed ==
    \E o \in SpeedObjects :
        /\ call' = Called("Fan.get_speed", o, 0, NoIo, Fan_get_speed(sysfs, o))
        /\ UNCHANGED <<sysfs, marker, thresholds, waiting>>

SpecSpeed == InitSpeed /\ [][SpeedGetSpeed]_vars

NextFanStatus == GetFanFault \/ GetFanStatus \/ FanGetStatus
SpecFanStatus == InitFanStatus /\ [][NextFanStatus]_vars

(***************************************************************************)
(* State machine of FanUtil.get_fan_status beside another process that     *)
(* rewrites the fault file between the two reads of the call.              *)
(***************************************************************************)
\* One call: the first read sees the file as it is, the other process
\* leaves the file in the state ff, the second read (if any) sees ff.
GetFanStatusRace ==
    \E fan_num \in FanNums, ff \in FlagFiles :
        LET fs2 == Patch(sysfs, FaultPath(fan_num) :> ff)
            io  == [first |-> Lookup(sysfs, FaultPath(fan_num)), second |-> ff]
        IN  /\ sysfs' = fs2
            /\ call' = Called("FanUtil.get_fan_status", 0, fan_num, io,
                              get_fan_status_reads(sysfs, fs2, fan_num))
            /\ UNCHANGED <<marker, thresholds, waiting>>

SpecFanRace == InitFanStatus /\ [][GetFanStatusRace]_vars

(***************************************************************************)
(* State machine of fan speed control: Fan.set_speed and the getters that  *)
(* read back what it wrote, called from the host and from the container.   *)
(***************************************************************************)
\* the front fans of two trays in either process, and one PSU fan
ControlObjects ==
    { Fan(t, 0, FALSE, 0, h) : t \in 0..1, h \in BOOLEAN } \cup { Fan(0, 0, TRUE, 0, TRUE) }

\* The outcomes of the two writes of set_speed: both pass, the marker write
\* is refused, the duty-cycle write is refused.
SetSpeedIo ==
    { [duty_ok |-> TRUE,  marker_ok |-> TRUE],
      [duty_ok |-> TRUE,  marker_ok |-> FALSE],
      [duty_ok |-> FALSE, marker_ok |-> TRUE] }

\* Before the first set_speed: tray 0 runs at full speed, tray 1 runs at
\* full speed or its duty-cycle file reads empty, no marker file exists in
\* either process, and the presence file of tray 0 is in an arbitrary state.
InitFanControl ==
    /\ \E a \in FlagFiles, b \in {File(str(MaxPercent)), File("")} :
          sysfs = Patch(Nominal(ControlObjects),
                        (PresentPath(Fan(0, 0, FALSE, 0, TRUE)) :> a)
                        @@ (FanDutyPath(Fan(1, 0, FALSE, 0, TRUE)) :> b)
                        @@ [p \in { FanDutyPath(o) : o \in ControlObjects } |-> File(str(MaxPercent))])
    /\ marker = [e \in {"host", "pmon"} |-> Missing]
    /\ thresholds = NoThresholds
    /\ call = NoCall
    /\ waiting = NoCall

FanSetSpeed ==
    \E o \in ControlObjects, speed \in DutyArgs, io \in SetSpeedIo :
        LET r == Fan_set_speed(sysfs, marker, o, speed, io.duty_ok, io.marker_ok)
        IN  /\ sysfs' = r.fs
            /\ marker' = r.mk
            /\ call' = Called("Fan.set_speed", o, speed, io, r.ret)
            /\ UNCHANGED <<thresholds, waiting>>

NextFanControl == FanSetSpeed \/ FanGetTargetSpeed \/ FanGetSpeedTolerance
SpecFanControl == InitFanControl /\ [][NextFanControl]_vars

(***************************************************************************)
(* State machine of Thermal                                                *)
(***************************************************************************)
NUM_THERMAL == Len(THERMAL_NAME_LIST)

AllThermals  == { Thermal(i, FALSE, 0) : i \in 0..(NUM_THERMAL - 1) }
PsuThermals  == { Thermal(0, TRUE, p) : p \in 0..(NUM_PSU - 1) }
\* the first and the last chassis sensor, the first and the last CPU
\* sensor, and the PSU sensors
ThermalObjects == { o \in AllThermals : o.index \in {0, 9, 10, 18} } \cup PsuThermals

TempPath(o) ==
    o.hwmon_path \o (IF o.is_psu THEN "psu" \o str(o.psu_index + 1) \o "_temp" ELSE "temp")
                 \o str(o.ss_index) \o "_input"
ThermalPresentPath(o) == o.hwmon_path \o "psu" \o str(o.psu_index + 1) \o "_present"

NominalThermal(objs) ==
    [p \in { TempPath(o) : o \in objs } \cup { ThermalPresentPath(o) : o \in objs } |->
        IF \E o \in objs : p = TempPath(o) THEN File("45500") ELSE File("1")]

TempFiles      == {Missing, Unreadable, File(""), File("0"), File("999"),
                   File("45500"), File("-5500")}
ThresholdTexts == {NOT_AVAILABLE, "80.0", "abc"}

\* One sensor's files, or one sensor's overrides, are in an arbitrary
\* state; the rest is nominal.
InitThermal ==
    LET nom == NominalThermal(ThermalObjects)
    IN  /\ \/ \E o \in ThermalObjects, t \in TempFiles, a \in FlagFiles :
                /\ sysfs = Patch(nom, (TempPath(o) :> t) @@
                                      (IF o.is_psu THEN ThermalPresentPath(o) :> a
                                       ELSE TempPath(o) :> t))
                /\ thresholds = NoThresholds
           \/ \E o \in ThermalObjects, h \in ThresholdTexts, c \in ThresholdTexts :
                /\ sysfs = nom
                /\ thresholds = (Thermal_get_name(o) :>
                                   [f \in {HIGH_THRESHOLD_FIELD, HIGH_CRIT_THRESHOLD_FIELD} |->
                                       IF f = HIGH_THRESHOLD_FIELD THEN h ELSE c])
        /\ marker = [e \in {"host", "pmon"} |-> Missing]
        /\ call = NoCall
        /\ waiting = NoCall

ThermalGetTemperature ==
    \E o \in ThermalObjects :
        /\ call' = Called("Thermal.get_temperature", o, 0, NoIo, Thermal_get_temperature(sysfs, o))
        /\ UNCHANGED <<sysfs, marker, thresholds, waiting>>

ThermalGetPresence ==
    \E o \in ThermalObjects :
        /\ call' = Called("Thermal.get_presence", o, 0, NoIo, Thermal_get_presence(sysfs, o))
        /\ UNCHANGED <<sysfs, marker, thresholds, waiting>>

ThermalGetStatus ==
    \E o \in ThermalObjects :
        /\ call' = Called("Thermal.get_status", o, 0, NoIo, Thermal_get_status(sysfs, o))
        /\ UNCHANGED <<sysfs, marker, thresholds, waiting>>

ThermalGetHighThreshold ==
    \E o \in ThermalObjects :
        /\ call' = Called("Thermal.get_high_threshold", o, 0, NoIo,
                          Thermal_get_high_threshold(thresholds, o))
        /\ UNCHANGED <<sysfs, marker, thresholds, waiting>>

ThermalGetHighCriticalThreshold ==
    \E o \in ThermalObjects :
        /\ call' = Called("Thermal.get_high_critical_threshold", o, 0, NoIo,
                          Thermal_get_high_critical_threshold(thresholds, o))
        /\ UNCHANGED <<sysfs, marker, thresholds, waiting>>

NextThermal == \/ ThermalGetTemperature \/ ThermalGetPresence \/ ThermalGetStatus
               \/ ThermalGetHighThreshold \/ ThermalGetHighCriticalThreshold
SpecThermal == InitThermal /\ [][NextThermal]_vars

(***************************************************************************)
(* State machine of the device identities: every Thermal and Fan object    *)
(* is asked for its name and position while the files change under it.     *)
(***************************************************************************)
InitIdentity ==
    /\ sysfs = Patch(Nominal(AllChassisFans \cup PsuFans),
                     [p \in { DutyPath(n) : n \in FanNums } |-> File("0")])
    /\ marker = [e \in {"host", "pmon"} |-> Missing]
    /\ thresholds = NoThresholds
    /\ call = NoCall
    /\ waiting = NoCall

ThermalGetName ==
    \E o \in AllThermals \cup PsuThermals :
        /\ call' = Called("Thermal.get_name", o, 0, NoIo, Ret(Thermal_get_name(o)))
        /\ UNCHANGED <<sysfs, marker, thresholds, waiting>>

ThermalGetPositionInParent ==
    \E o \in AllThermals \cup PsuThermals :
        /\ call' = Called("Thermal.get_position_in_parent", o, 0, NoIo,
                          Ret(Thermal_get_position_in_parent(o)))
        /\ UNCHANGED <<sysfs, marker, thresholds, waiting>>

FanGetName ==
    \E o \in AllChassisFans \cup PsuFans :
        /\ call' = Called("Fan.get_name", o, 0, NoIo, Ret(Fan_get_name(o)))
        /\ UNCHANGED <<sysfs, marker, thresholds, waiting>>

FanGetPositionInParent ==
    \E o \in AllChassisFans \cup PsuFans :
        /\ call' = Called("Fan.get_position_in_parent", o, 0, NoIo,
                          Ret(Fan_get_position_in_parent(o)))
        /\ UNCHANGED <<sysfs, marker, thresholds, waiting>>

ThermalSetHighThreshold ==
    \E o \in { Thermal(0, FALSE, 0) }, t \in {"80", "abc"}, ok \in BOOLEAN :
        LET r == Thermal_set_high_threshold(thresholds, o, t, ok)
        IN  /\ thresholds' = r.th
            /\ call' = Called("Thermal.set_high_threshold", o, t, NoIo, r.ret)
            /\ UNCHANGED <<sysfs, marker, waiting>>

IdentitySetFanDutyCycle ==
    \E val \in DutyArgs, io \in { i \in DutyIo : i.fail_at = 0 } :
        LET r == set_fan_duty_cycle(sysfs, marker, val, io)
            c == Called("FanUtil.set_fan_duty_cycle", 0, val, io, r.ret)
        IN  /\ waiting.op = "init"
            /\ sysfs' = r.fs
            /\ marker' = r.mk
            /\ call' = c
            /\ waiting' = IF r.ret.kind = "pending" THEN c ELSE NoCall
            /\ UNCHANGED thresholds

NextIdentity == \/ ThermalGetName \/ ThermalGetPositionInParent
                \/ FanGetName \/ FanGetPositionInParent
                \/ ThermalSetHighThreshold \/ IdentitySetFanDutyCycle \/ SetFanDutyCycleReturn
SpecIdentity == InitIdentity /\ [][NextIdentity]_vars

(***************************************************************************)
(* Properties                                                              *)
(***************************************************************************)
IsCall(op)     == call.op = op
Returned(v)    == call.ret.kind = "return" /\ call.ret.val = v
Holds(f, n)    == f.st = "ok" /\ f.text = str(n)
Unavailable(f) == f.st # "ok" \/ f.text = ""

\* C1: whenever FanUtil.set_fan_duty_cycle(val) returns True, the four
\* duty-cycle files and the host copy of the target-speed marker hold val.
C1_TrueMeansAllWritten ==
    (IsCall("FanUtil.set_fan_duty_cycle") /\ Returned(TRUE))
        => /\ \A n \in FanNums : Holds(Lookup(sysfs, DutyPath(n)), call.arg)
           /\ Holds(marker["host"], call.arg)

\* C2: a set_fan_duty_cycle call in which a write failed (a duty-cycle file
\* or the host marker file) returns False, once it has ended.
WriteFailed(io) == io.fail_at # 0 \/ ~io.marker_ok
C2_FailedWriteReturnsFalse ==
    ( /\ IsCall("FanUtil.set_fan_duty_cycle") /\ call.ret.kind # "pending"
      /\ WriteFailed(call.io) ) => Returned(FALSE)

\* C4: Fan.get_speed, get_target_speed, get_speed_tolerance, get_presence
\* and get_status return a value, whatever the state of the files.
FanGetters == {"Fan.get_speed", "Fan.get_target_speed", "Fan.get_speed_tolerance",
               "Fan.get_presence", "Fan.get_status"}
C4_FanGettersNeverRaise ==
    call.op \in FanGetters => call.ret.kind = "return"

\* C5: for a present chassis fan with duty cycle d in 0..100 and rpm r >= 0,
\* Fan.get_speed returns d * r / target_rpm(d), truncated and clamped to
\* 100, and 0 when target_rpm(d) or r is 0.
ExpectedSpeed(d, r) ==
    LET t == 136 * d
    IN  IF t = 0 \/ r = 0 THEN 0
        ELSE IF (d * r) \div t > 100 THEN 100 ELSE (d * r) \div t
C5_SpeedIsScaledRpm ==
    IsCall("Fan.get_speed")
        => \A d \in 0..MaxPercent, r \in RpmNumerals \cup {0} :
              ( /\ Holds(Lookup(sysfs, PresentPath(call.self)), 1)
                /\ Holds(Lookup(sysfs, FanDutyPath(call.self)), d)
                /\ Holds(Lookup(sysfs, InputPath(call.self)), r) )
              => Returned(ExpectedSpeed(d, r))

\* C7: Fan.get_presence returns True exactly when the presence file of the
\* fan (of the PSU, for a PSU fan) holds the integer 1, False otherwise.
PresenceFile(o) == Lookup(sysfs, IF o.is_psu_fan THEN PsuPresentPath(o) ELSE PresentPath(o))
C7_PresentIffFileHoldsOne ==
    IsCall("Fan.get_presence") => Returned(Holds(PresenceFile(call.self), 1))
C7_Witness ==
    /\ IsCall("Fan.get_presence") /\ ~call.self.is_psu_fan
    /\ Holds(PresenceFile(call.self), 1) /\ Returned(TRUE)

\* C8: a fan whose fault file is unreadable or empty is not reported healthy:
\* FanUtil.get_fan_status (valid fan number) does not return True and
\* Fan.get_status returns False.
C8_UnreadableFaultNotHealthy ==
    /\ ( /\ IsCall("FanUtil.get_fan_status") /\ call.arg \in FanNums
         /\ Unavailable(Lookup(sysfs, FaultPath(call.arg))) )
          => ~Returned(TRUE)
    /\ ( /\ IsCall("Fan.get_status") /\ ~call.self.is_psu_fan
         /\ Unavailable(Lookup(sysfs, FanFaultPath(call.self))) )
          => Returned(FALSE)

\* C3: Thermal.get_temperature, get_presence and get_status never raise, and
\* return the sentinel (0, False) when the file of the sensor is missing,
\* unreadable or empty.
ThermalGetters == {"Thermal.get_temperature", "Thermal.get_presence", "Thermal.get_status"}
SensorFile(o) == Lookup(sysfs, IF o.is_psu THEN ThermalPresentPath(o) ELSE TempPath(o))
C3_ThermalGettersNeverRaise ==
    /\ call.op \in ThermalGetters => call.ret.kind = "return"
    /\ (IsCall("Thermal.get_temperature") /\ Unavailable(Lookup(sysfs, TempPath(call.self))))
          => Returned(DivideBy1000(0))
    /\ ( /\ call.op \in {"Thermal.get_presence", "Thermal.get_status"}
         /\ ~call.self.is_cpu /\ Unavailable(SensorFile(call.self)) )
          => Returned(FALSE)

\* C6: Thermal.get_temperature returns the millidegree value of the first
\* line of temp{index+1}_input (chassis, index 0..9), of coretemp's
\* temp{index-9}_input (CPU, index 10..18) or of
\* psu{psu_index+1}_temp{index+1}_input (PSU), divided by 1000, and 0 when
\* that file yields no non-empty first line.
ClaimedTempPath(o) ==
    IF o.is_psu
    THEN "/sys/devices/platform/as7926_40xfb_psu/psu" \o str(o.psu_index + 1)
             \o "_temp" \o str(o.index + 1) \o "_input"
    ELSE IF o.index \in 0..9
    THEN "/sys/devices/platform/as7926_40xfb_thermal/temp" \o str(o.index + 1) \o "_input"
    ELSE "/sys/devices/platform/coretemp.0/hwmon/hwmon0/temp" \o str(o.index - 9) \o "_input"
C6_TemperatureIsMilliOver1000 ==
    IsCall("Thermal.get_temperature")
        => LET f == Lookup(sysfs, ClaimedTempPath(call.self))
           IN  /\ call.ret.kind = "return"
               /\ call.ret.val.milli \in 0..999
               /\ IF Unavailable(f)
                  THEN call.ret.val.whole = 0 /\ call.ret.val.milli = 0
                  ELSE Holds(f, 1000 * call.ret.val.whole + call.ret.val.milli)
C6_Witness ==
    /\ IsCall("Thermal.get_temperature") /\ call.self.is_cpu
    /\ Holds(Lookup(sysfs, ClaimedTempPath(call.self)), -5500)
    /\ call.ret.val = [whole |-> -6, milli |-> 500]

\* C9: get_high_threshold and get_high_critical_threshold return the
\* override when it is present and parseable as a number, the static
\* default of the sensor name when the override is absent or not parseable.
ThresholdField ==
    IF IsCall("Thermal.get_high_threshold") THEN HIGH_THRESHOLD_FIELD
    ELSE HIGH_CRIT_THRESHOLD_FIELD
C9_OverrideThenDefault ==
    call.op \in {"Thermal.get_high_threshold", "Thermal.get_high_critical_threshold"}
        => LET name == Thermal_get_name(call.self)
               ov   == DeviceThreshold_get(thresholds, name, ThresholdField)
           IN  IF IsFloatText(ov) THEN Returned(float(ov))
               ELSE Returned(float(default_threshold[name][ThresholdField]))

\* C10: whatever the files hold and whatever was called before, Thermal(i)
\* is named THERMAL_NAME_LIST[i] at position i + 1, the chassis fan (t, f)
\* is named FAN_NAME_LIST[2t + f] at position f + 1, every position is
\* >= 1, and no two chassis fans and no two thermals share a name.
SameFan(a, b) == a.fan_tray_index = b.fan_tray_index /\ a.fan_index = b.fan_index
C10_IdentityIsStatic ==
    /\ (IsCall("Thermal.get_name") /\ ~call.self.is_psu)
          => /\ Returned(THERMAL_NAME_LIST[call.self.index + 1])
             /\ \A o \in AllThermals :
                   o.index # call.self.index => ~Returned(Thermal_get_name(o))
    /\ (IsCall("Thermal.get_position_in_parent") /\ ~call.self.is_psu)
          => Returned(call.self.index + 1)
    /\ (IsCall("Fan.get_name") /\ ~call.self.is_psu_fan)
          => /\ Returned(FAN_NAME_LIST[(2 * call.self.fan_tray_index + call.self.fan_index) + 1])
             /\ \A o \in AllChassisFans :
                   ~SameFan(o, call.self) => ~Returned(Fan_get_name(o))
    /\ (IsCall("Fan.get_position_in_parent") /\ ~call.self.is_psu_fan)
          => Returned(call.self.fan_index + 1)
    /\ call.op \in {"Thermal.get_position_in_parent", "Fan.get_position_in_parent"}
          => call.ret.kind = "return" /\ call.ret.val >= 1
C10_Witness ==
    /\ IsCall("Fan.get_name") /\ Returned("FAN-4R")
    /\ call.self.fan_tray_index = 3 /\ call.self.fan_index = 1
    /\ Holds(marker["host"], 25)
    /\ "Temp sensor 1" \in DOMAIN thresholds

\* C11: Fan.set_speed returns True exactly when the fan is a present
\* chassis fan and the write to the duty-cycle file of its tray succeeded;
\* a call that returns False (PSU fan, absent fan, refused write) changes
\* no file, and the marker file changes only in a call that returns True
\* and has written the duty-cycle file.
SetSpeedResult ==
    IsCall("Fan.set_speed")
        => Returned( /\ ~call.self.is_psu_fan
                     /\ Holds(Lookup(sysfs, PresentPath(call.self)), 1)
                     /\ call.io.duty_ok )
SetSpeedFrame ==
    /\ (call'.op = "Fan.set_speed" /\ call'.ret # Ret(TRUE))
          => (sysfs' = sysfs /\ marker' = marker)
    /\ marker' # marker
          => /\ call'.op = "Fan.set_speed" /\ call'.ret = Ret(TRUE)
             /\ Holds(Lookup(sysfs', FanDutyPath(call'.self)), call'.arg)
C11_SetSpeedContract == [](SetSpeedResult) /\ [][SetSpeedFrame]_vars
C11_Witness ==
    /\ IsCall("Fan.set_speed") /\ Returned(TRUE) /\ ~call.self.is_host
    /\ Holds(Lookup(sysfs, FanDutyPath(call.self)), 25)
    /\ Holds(marker["pmon"], 25) /\ marker["host"] = Missing

\* C12: when set_fan_duty_cycle(val) cannot open the duty-cycle file of
\* fan k, it returns False, the duty-cycle files of fans k..4 keep their
\* contents and both copies of the marker file are left as they were.
OpenFailsAt(c, k) ==
    c.op = "FanUtil.set_fan_duty_cycle" /\ c.io.how = "open" /\ c.io.fail_at = k
DutyAbortFrame ==
    \A k \in FanNums :
        OpenFailsAt(call', k)
            => /\ call'.ret = Ret(FALSE)
               /\ \A n \in k..FAN_NUM_ON_MAIN_BROAD :
                     Lookup(sysfs', DutyPath(n)) = Lookup(sysfs, DutyPath(n))
               /\ marker' = marker
C12_OpenFailureAborts == [][DutyAbortFrame]_vars
C12_Witness ==
    /\ OpenFailsAt(call, 3) /\ Returned(FALSE) /\ call.arg = 25
    /\ Holds(Lookup(sysfs, DutyPath(2)), 25) /\ Holds(Lookup(sysfs, DutyPath(3)), 0)
    /\ Holds(marker["host"], 0) /\ Holds(marker["pmon"], 0)

\* C13: Fan.get_speed_tolerance returns 30 when the marker file does not
\* exist and 30 + |duty cycle of the tray - marker value| when it exists,
\* so it always returns a value >= 30; asked on a fan right after a
\* successful Fan.set_speed on the tray of that fan, it returns exactly 30.
ToleranceValue ==
    IsCall("Fan.get_speed_tolerance")
        => /\ call.ret.kind = "return" /\ call.ret.val >= 30
           /\ IF ~isfile(marker[Env(call.self)]) THEN Returned(30)
              ELSE \E d \in DutyNumerals, m \in DutyNumerals :
                      /\ Holds(Lookup(sysfs, FanDutyPath(call.self)), d)
                      /\ Holds(marker[Env(call.self)], m)
                      /\ Returned(30 + (IF d < m THEN m - d ELSE d - m))
ToleranceAfterSet ==
    ( /\ call.op = "Fan.set_speed" /\ call.ret = Ret(TRUE)
      /\ call'.op = "Fan.get_speed_tolerance" /\ ~call'.self.is_psu_fan
      /\ call'.self.fan_tray_index = call.self.fan_tray_index
      /\ call'.self.is_host = call.self.is_host )
        => call'.ret = Ret(30)
C13_ToleranceIsThirtyPlusGap == [](ToleranceValue) /\ [][ToleranceAfterSet]_vars

\* C14: Fan.get_status_led of a chassis fan is GREEN when the fan is
\* present and AMBER otherwise, whatever its fault file holds; of a PSU fan
\* it is OFF when the PSU is absent, GREEN when the PSU is present and
\* power-good reads 1, AMBER when present and power-good is anything else.
ExpectedLed(o) ==
    IF ~o.is_psu_fan
    THEN IF Holds(Lookup(sysfs, PresentPath(o)), 1) THEN "green" ELSE "amber"
    ELSE IF ~Holds(Lookup(sysfs, PsuPresentPath(o)), 1) THEN "off"
    ELSE IF Holds(Lookup(sysfs, PsuPowerGoodPath(o)), 1) THEN "green" ELSE "amber"
C14_LedFollowsPresence ==
    IsCall("Fan.get_status_led") => Returned(ExpectedLed(call.self))
C14_Witness ==
    /\ IsCall("Fan.get_status_led") /\ call.self.is_psu_fan /\ Returned("amber")
    /\ Holds(Lookup(sysfs, PsuPresentPath(call.self)), 1)
    /\ Unavailable(Lookup(sysfs, PsuPowerGoodPath(call.self)))

\* C15: with Fan.set_speed the only writer, Fan.get_target_speed on a
\* present chassis fan of tray t returns the last speed successfully set on
\* tray t, on the host and in the container.  Every successful set_speed
\* writes the duty-cycle file of its tray and nothing else writes it, so
\* once a speed has been set on tray t that file holds the last one (the
\* speeds set differ from the full speed the trays start with).
LastSetSpeed(o) ==
    { d \in DutyArgs : Holds(Lookup(sysfs, FanDutyPath(o)), d) }
C15_TargetIsLastSetOnTray ==
    ( /\ IsCall("Fan.get_target_speed") /\ ~call.self.is_psu_fan
      /\ Holds(Lookup(sysfs, PresentPath(call.self)), 1) )
        => \A d \in LastSetSpeed(call.self) : Returned(d)

\* C16: the four duty-cycle files start with one common value and
\* set_fan_duty_cycle is the only writer; after every call that returned
\* (True or False) the four files hold one common value.
C16_DutyFilesStayEqual ==
    (IsCall("FanUtil.set_fan_duty_cycle") /\ call.ret.kind = "return")
        => \A n \in FanNums :
              Lookup(sysfs, DutyPath(n)) = Lookup(sysfs, DutyPath(FAN_NUM_1_IDX))

\* C17: FanUtil.get_fan_status of a valid fan returns True or False and
\* never raises, also when another process changes the fault file between
\* the two reads of the call; False answers a fault value (> 0) the file
\* held at one of the reads, True answers a state without fault that the
\* file held at one of the reads.
Faulty(f) == f.st = "ok" /\ IsNumeral(f.text) /\ int(f.text) > 0
C17_StatusSurvivesRace ==
    (IsCall("FanUtil.get_fan_status") /\ call.arg \in FanNums)
        => /\ call.ret.kind = "return"
           /\ call.ret.val \in BOOLEAN
           /\ \E f \in {call.io.first, call.io.second} : call.ret.val = ~Faulty(f)

\* C18: in every state of the files in which Thermal.get_status and
\* Thermal.get_presence both return, get_status True implies get_presence
\* True; a CPU sensor reports both True and a PSU sensor reports a status
\* equal to its presence.
C18_StatusImpliesPresence ==
    (IsCall("Thermal.get_status") /\ call.ret.kind = "return")
        => LET presence == Thermal_get_presence(sysfs, call.self)
           IN  presence.kind = "return"
                  => /\ call.ret.val => presence.val
                     /\ call.self.is_cpu => (call.ret.val /\ presence.val)
                     /\ call.self.is_psu => (call.ret.val = presence.val)
C18_Witness ==
    /\ IsCall("Thermal.get_status") /\ Returned(TRUE)
    /\ ~call.self.is_cpu /\ ~call.self.is_psu
    /\ Holds(Lookup(sysfs, TempPath(call.self)), 999)
    /\ Thermal_get_presence(sysfs, call.self) = Ret(TRUE)

====
